---- MODULE Spec2Model ----
(***************************************************************************)
(* Model of streamlit_app.py: the title keyword analyser.                  *)
(*                                                                         *)
(* A Python str is a sequence of Unicode code points (integers), so that   *)
(* the regular expression of preprocess_text, str.strip and len are        *)
(* computed on the characters themselves.  A Counter / dict is a sequence  *)
(* of [word, count] records in insertion order, which is the order Python  *)
(* dicts iterate in.                                                       *)
(***************************************************************************)
EXTENDS Integers, Sequences, FiniteSets, TLC

VARIABLES
    uploaded_file,   \* value of the st.file_uploader widget (NoFile = None)
    stopwords_txt,   \* the file stopwords.txt as the process finds it
    font_ok,         \* TRUE iff SimHei.ttf can be opened by the renderer
    jieba_mode,      \* the segmenter behind jieba.cut, fixed for the process
    page,            \* elements the last run of main() put on the page
    calls,           \* functions the last run of main() invoked
    exc,             \* exception raised inside the try block of the last run
    title_column,    \* main's local title_column
    titles,          \* main's local titles
    stopwords,       \* main's local stopwords
    words,           \* main's local words (the list preprocess_text built)
    top_words,       \* main's local top_words
    word_dict,       \* main's local word_dict
    prev_analysed,   \* history: the run before the last one tokenized titles
    fn,              \* pure-function harness: function being called
    fn_args,         \* pure-function harness: its arguments
    fn_ret           \* pure-function harness: what it returned

vars == <<uploaded_file, stopwords_txt, font_ok, jieba_mode, page, calls, exc,
          title_column, titles, stopwords, words, top_words, word_dict,
          prev_analysed, fn, fn_args, fn_ret>>

main_vars == <<uploaded_file, stopwords_txt, font_ok, jieba_mode, page, calls,
               exc, title_column, titles, stopwords, words, top_words, word_dict,
               prev_analysed>>

fn_vars == <<fn, fn_args, fn_ret>>

-----------------------------------------------------------------------------
(* Bounds of the model *)

MaxRows == 2      \* rows of an uploaded table
MaxCols == 2      \* columns of an uploaded table
MaxLines == 2     \* lines of stopwords.txt
MaxWords == 3     \* length of a word sequence given to analyze_keywords
MaxTopN == 3      \* largest top_n given to analyze_keywords
MaxCands == 3     \* candidates an arbitrary segmenter returns for a title

(* Program constants *)

CJKFirst == 19968     \* 一
CJKLast == 40869      \* 龥
DefaultTopN == 100
DisplayTopN == 20

-----------------------------------------------------------------------------
(* Strings *)

Min(a, b) == IF a < b THEN a ELSE b

\* Code points str.strip() treats as whitespace (those the model uses).
Whitespace == {9, 10, 13, 32, 12288}

RECURSIVE LStrip(_)
LStrip(s) ==
    IF s # <<>> /\ Head(s) \in Whitespace THEN LStrip(Tail(s)) ELSE s

RECURSIVE RStrip(_)
RStrip(s) ==
    IF s # <<>> /\ s[Len(s)] \in Whitespace
    THEN RStrip(SubSeq(s, 1, Len(s) - 1))
    ELSE s

\* str.strip()
Strip(s) == RStrip(LStrip(s))

\* str(title) for a cell that is not a str: an empty spreadsheet cell is the
\* float NaN, an integer cell prints its digits.
ToStr(cell) ==
    IF cell.kind = "str" THEN cell.text
    ELSE IF cell.kind = "nan" THEN <<110, 97, 110>>
    ELSE <<55>>

\* re.sub(r'[^一-龥]', ' ', title)
CleanTitle(title) ==
    [i \in 1..Len(title) |->
        IF title[i] >= CJKFirst /\ title[i] <= CJKLast THEN title[i] ELSE 32]

-----------------------------------------------------------------------------
(* jieba.cut: an external segmenter.  Three deterministic segmenters, and  *)
(* segmenters that return a fixed list of candidates whatever the text.    *)

CutChars(text) == [i \in 1..Len(text) |-> <<text[i]>>]

RECURSIVE CutRuns(_)
CutRuns(text) ==
    IF text = <<>> THEN <<>>
    ELSE LET sp == text[1] = 32
             RECURSIVE RunLen(_)
             RunLen(k) ==
                 IF k < Len(text) /\ ((text[k + 1] = 32) = sp)
                 THEN RunLen(k + 1) ELSE k
             n == RunLen(1)
         IN  <<SubSeq(text, 1, n)>> \o CutRuns(SubSeq(text, n + 1, Len(text)))

CutWhole(text) == IF text = <<>> THEN <<>> ELSE <<text>>

Cut(mode, text) ==
    CASE mode.kind = "chars" -> CutChars(text)
      [] mode.kind = "runs" -> CutRuns(text)
      [] mode.kind = "whole" -> CutWhole(text)
      [] OTHER -> mode.out

-----------------------------------------------------------------------------
(* preprocess_text *)

\* the condition of the list comprehension
KeepWordNoLength(word, stopset) == Strip(word) # <<>> /\ word \notin stopset

KeepWord(word, stopset) ==
    Len(word) > 1 /\ Strip(word) # <<>> /\ word \notin stopset

RECURSIVE FilterWords(_, _)
FilterWords(ws, stopset) ==
    IF ws = <<>> THEN <<>>
    ELSE (IF KeepWord(Head(ws), stopset) THEN <<Head(ws)>> ELSE <<>>)
         \o FilterWords(Tail(ws), stopset)

\* all_words = []   (prev is the list the previous call left behind)
InitialWordsCarried(prev) == prev

InitialWords(prev) == <<>>

RECURSIVE ExtendAll(_, _, _, _)
ExtendAll(all_words, ts, stopset, mode) ==
    IF ts = <<>> THEN all_words
    ELSE ExtendAll(
            all_words \o FilterWords(Cut(mode, CleanTitle(ToStr(Head(ts)))), stopset),
            Tail(ts), stopset, mode)

preprocess_text(prev, ts, stopset, mode) ==
    ExtendAll(InitialWords(prev), ts, stopset, mode)

-----------------------------------------------------------------------------
(* get_stopwords *)

DefaultStopwords ==
    { <<30340>>, <<20102>>, <<21644>>, <<26159>>, <<22312>>, <<25105>>,
      <<26377>>, <<23601>>, <<19981>>, <<20154>>, <<37117>>, <<19968>>,
      <<19968, 20010>>, <<19978>>, <<20063>>, <<24456>>, <<21040>>,
      <<35828>>, <<35201>>, <<21435>>, <<20320>>, <<20250>>, <<30528>>,
      <<27809, 26377>>, <<30475>>, <<22909>>, <<33258, 24049>>, <<36825>> }

\* What open("stopwords.txt", "r", encoding="utf-8") and the iteration over
\* the file raise: "none" when the file can be read to its end.
OpenError(f) ==
    CASE f.state = "absent" -> "FileNotFoundError"
      [] f.state = "denied" -> "PermissionError"
      [] f.state = "directory" -> "IsADirectoryError"
      [] f.state = "badutf8" -> "UnicodeDecodeError"
      [] OTHER -> "none"

\* set([line.strip() for line in f])
StrippedLines(lines) == {Strip(lines[i]) : i \in 1..Len(lines)}

\* The result of a call: the exception that leaves it, or the value returned.
get_stopwords(f) ==
    LET e == OpenError(f)
    IN  IF e = "none" THEN [raised |-> "none", value |-> StrippedLines(f.lines)]
        ELSE IF e = "FileNotFoundError"
        THEN [raised |-> "none", value |-> DefaultStopwords]
        ELSE [raised |-> e, value |-> {}]

-----------------------------------------------------------------------------
(* analyze_keywords *)

Entry(w, n) == [word |-> w, count |-> n]

HasWord(c, w) == \E i \in 1..Len(c) : c[i].word = w

IndexOfWord(c, w) == CHOOSE i \in 1..Len(c) : c[i].word = w

\* dict lookup with the Counter's default of 0
CountOf(c, w) == IF HasWord(c, w) THEN c[IndexOfWord(c, w)].count ELSE 0

CounterUpdateNoIncrement(c, w) ==
    IF HasWord(c, w) THEN c ELSE Append(c, Entry(w, 1))

\* one step of Counter(words): self[elem] = self.get(elem, 0) + 1
CounterUpdate(c, w) ==
    IF HasWord(c, w)
    THEN [c EXCEPT ![IndexOfWord(c, w)].count = @ + 1]
    ELSE Append(c, Entry(w, 1))

RECURSIVE CounterFrom(_, _)
CounterFrom(c, ws) ==
    IF ws = <<>> THEN c ELSE CounterFrom(CounterUpdate(c, Head(ws)), Tail(ws))

\* Counter(words)
Counter(ws) == CounterFrom(<<>>, ws)

RankInsertTiesReversed(sorted, e) ==
    LET k == Cardinality({i \in 1..Len(sorted) : sorted[i].count > e.count})
    IN  SubSeq(sorted, 1, k) \o <<e>> \o SubSeq(sorted, k + 1, Len(sorted))

\* sorted(..., key=count, reverse=True) is stable: an item goes behind every
\* item already placed whose count is at least its own.
RankInsert(sorted, e) ==
    LET k == Cardinality({i \in 1..Len(sorted) : sorted[i].count >= e.count})
    IN  SubSeq(sorted, 1, k) \o <<e>> \o SubSeq(sorted, k + 1, Len(sorted))

RECURSIVE SortedByCount(_, _)
SortedByCount(sorted, items) ==
    IF items = <<>> THEN sorted
    ELSE SortedByCount(RankInsert(sorted, Head(items)), Tail(items))

\* Counter.most_common(n) for an integer n: heapq.nlargest(n, items, key=count),
\* which is sorted(items, key=count, reverse=True)[:n]
most_common(c, n) ==
    LET s == SortedByCount(<<>>, c)
    IN  SubSeq(s, 1, Min(n, Len(s)))

analyze_keywords(ws, top_n) ==
    [top_words |-> most_common(Counter(ws), top_n), word_dict |-> Counter(ws)]

-----------------------------------------------------------------------------
(* generate_wordcloud: the exception it raises, "none" when it returns.    *)
(* generate_from_frequencies refuses an empty dict before it opens the     *)
(* font file.                                                              *)

generate_wordcloud(wd, font) ==
    IF wd = <<>> THEN "ValueError"
    ELSE IF ~font THEN "OSError"
    ELSE "none"

-----------------------------------------------------------------------------
(* main *)

\* possible_columns; the first two stand for the column names 标题 and 商品标题
possible_columns == <<"biaoti", "shangpin_biaoti", "product_title", "title">>

NoColumn == "None"

NoFile == [kind |-> "none", columns |-> <<>>, data |-> <<>>]

IsIn(x, seq) == \E i \in 1..Len(seq) : seq[i] = x

FindTitleColumnFallback(columns) ==
    IF \E k \in 1..Len(possible_columns) : IsIn(possible_columns[k], columns)
    THEN possible_columns[CHOOSE k \in 1..Len(possible_columns) :
            /\ IsIn(possible_columns[k], columns)
            /\ \A j \in 1..(k - 1) : ~IsIn(possible_columns[j], columns)]
    ELSE IF columns # <<>> THEN columns[1] ELSE NoColumn

FindTitleColumnTableOrder(columns) ==
    IF \E i \in 1..Len(columns) : IsIn(columns[i], possible_columns)
    THEN columns[CHOOSE i \in 1..Len(columns) :
            /\ IsIn(columns[i], possible_columns)
            /\ \A j \in 1..(i - 1) : ~IsIn(columns[j], possible_columns)]
    ELSE NoColumn

\* for col in possible_columns: if col in df.columns: title_column = col; break
RECURSIVE FindFrom(_, _)
FindFrom(k, columns) ==
    IF k > Len(possible_columns) THEN NoColumn
    ELSE IF IsIn(possible_columns[k], columns) THEN possible_columns[k]
    ELSE FindFrom(k + 1, columns)

FindTitleColumn(columns) == FindFrom(1, columns)

\* df[title_column].tolist()
ColumnData(f, col) ==
    f.data[CHOOSE i \in 1..Len(f.columns) : f.columns[i] = col]

Elem(k) == [kind |-> k, body |-> <<>>]

\* the lines "{i}. **{word}**: {count}次" of top_words[:20]
TopList(top) == [kind |-> "top_list", body |-> SubSeq(top, 1, Min(DisplayTopN, Len(top)))]

Unbound ==
    [title_column |-> NoColumn, titles |-> <<>>, stopwords |-> {},
     words |-> <<>>, top_words |-> <<>>, word_dict |-> <<>>, exc |-> "none"]

\* One run of main() with the uploader holding f: what it leaves on the page,
\* what it called, the exception its try block caught, and its locals.
\* prev is the list the previous call of preprocess_text built.
RunMain(prev, f, sfile, font, mode) ==
    IF f = NoFile
    THEN [Unbound EXCEPT !.words = <<>>] @@ [page |-> <<>>, calls |-> {}]
    ELSE IF f.kind = "corrupt"
    THEN [Unbound EXCEPT !.exc = "ParseError"]
         @@ [page |-> <<Elem("error_exception")>>, calls |-> {"read_excel"}]
    ELSE
    LET col == FindTitleColumn(f.columns) IN
    IF col = NoColumn
    THEN Unbound @@ [page |-> <<Elem("error_missing_column")>>,
                     calls |-> {"read_excel"}]
    ELSE
    LET ts == ColumnData(f, col) IN
    IF ts = <<>>
    THEN [Unbound EXCEPT !.title_column = col]
         @@ [page |-> <<Elem("error_empty")>>, calls |-> {"read_excel"}]
    ELSE
    LET sw == get_stopwords(sfile) IN
    IF sw.raised # "none"
    THEN [Unbound EXCEPT !.title_column = col, !.titles = ts, !.exc = sw.raised]
         @@ [page |-> <<Elem("error_exception")>>,
             calls |-> {"read_excel", "get_stopwords"}]
    ELSE
    LET ws == preprocess_text(prev, ts, sw.value, mode)
        an == analyze_keywords(ws, DefaultTopN)
        shown == <<Elem("success"), Elem("top_header"), TopList(an.top_words),
                   Elem("cloud_header")>>
        r == generate_wordcloud(an.word_dict, font)
    IN  [title_column |-> col, titles |-> ts, stopwords |-> sw.value,
         words |-> ws, top_words |-> an.top_words, word_dict |-> an.word_dict,
         exc |-> r,
         page |-> IF r = "none"
                  THEN shown \o <<Elem("image"), Elem("download_button")>>
                  ELSE shown \o <<Elem("error_exception")>>,
         calls |-> {"read_excel", "get_stopwords", "preprocess_text",
                    "analyze_keywords", "generate_wordcloud"}]

-----------------------------------------------------------------------------
(* Inputs *)

RECURSIVE SeqsUpTo(_, _)
SeqsUpTo(S, n) ==
    IF n = 0 THEN {<<>>}
    ELSE LET shorter == SeqsUpTo(S, n - 1)
         IN  shorter \cup {Append(q, x) : q \in {r \in shorter : Len(r) = n - 1}, x \in S}

StrCell(t) == [kind |-> "str", text |-> t]

\* an empty cell, a cell of one space, a title with a Latin letter in it
TitleCells ==
    { [kind |-> "nan", text |-> <<>>],
      StrCell(<<32>>),
      StrCell(<<20010, 20010, 120, 19968, 20010>>) }

TitleLists == SeqsUpTo(TitleCells, MaxRows)

ColumnNames == {possible_columns[k] : k \in 1..Len(possible_columns)} \cup {"price"}

IsDistinct(q) == \A i \in 1..Len(q) : \A j \in 1..Len(q) : q[i] = q[j] => i = j

\* df.columns: distinct names in the order of the sheet
Headers == {h \in SeqsUpTo(ColumnNames, MaxCols) : IsDistinct(h)}

Table(h, d) == [kind |-> "table", columns |-> h, data |-> d]

\* tables of one column, with up to MaxRows rows
SingleColumnFiles == {Table(<<a>>, <<l>>) : a \in ColumnNames, l \in TitleLists}

\* tables of up to MaxCols columns in any order, with up to one row
WideFiles ==
    UNION {{Table(h, d) : d \in [1..Len(h) -> {<<c>> : c \in TitleCells}]
                                \cup [1..Len(h) -> {<<>>}]} : h \in Headers}

\* tables whose only column is 标题
TitleOnlyFiles == {Table(<<possible_columns[1]>>, <<l>>) : l \in TitleLists}

CorruptFile == [kind |-> "corrupt", columns |-> <<>>, data |-> <<>>]

Files == SingleColumnFiles \cup WideFiles \cup {CorruptFile}

\* lines of stopwords.txt: an empty line, a word with blanks around it
StopLines == { <<10>>, <<32, 19968, 20010, 32, 10>> }

StopFile(st, ls) == [state |-> st, lines |-> ls]

StopFiles ==
    {StopFile("readable", ls) : ls \in SeqsUpTo(StopLines, MaxLines)}
    \cup {StopFile(st, <<>>) : st \in {"absent", "denied", "directory", "badutf8"}}

JiebaModes == {[kind |-> k, out |-> <<>>] : k \in {"chars", "runs", "whole"}}

-----------------------------------------------------------------------------
(* The application: the user acts on the page, Streamlit reruns main().    *)

NoCall == [name |-> "none"]

Init ==
    /\ uploaded_file = NoFile
    /\ stopwords_txt = StopFile("absent", <<>>)
    /\ font_ok = FALSE
    /\ jieba_mode \in JiebaModes
    /\ page = <<>>
    /\ calls = {}
    /\ exc = "none"
    /\ title_column = NoColumn
    /\ titles = <<>>
    /\ stopwords = {}
    /\ words = <<>>
    /\ top_words = <<>>
    /\ word_dict = <<>>
    /\ prev_analysed = FALSE
    /\ fn = "none"
    /\ fn_args = NoCall
    /\ fn_ret = NoCall

\* main() runs from its first line with the uploader holding f
Main(f) ==
    \E r \in {RunMain(words, f, stopwords_txt, font_ok, jieba_mode)} :
        /\ uploaded_file' = f
        /\ page' = r.page
        /\ calls' = r.calls
        /\ exc' = r.exc
        /\ title_column' = r.title_column
        /\ titles' = r.titles
        /\ stopwords' = r.stopwords
        /\ words' = r.words
        /\ top_words' = r.top_words
        /\ word_dict' = r.word_dict
        /\ prev_analysed' = ("preprocess_text" \in calls)
        /\ UNCHANGED <<stopwords_txt, font_ok, jieba_mode, fn, fn_args, fn_ret>>

\* the user drops a file on the empty uploader
UploadFile(f) ==
    /\ uploaded_file = NoFile
    /\ Main(f)

\* the user drops another file on the uploader that holds one
ReplaceFile(f) ==
    /\ uploaded_file # NoFile
    /\ Main(f)

\* the user removes the file from the uploader
RemoveFile ==
    /\ uploaded_file # NoFile
    /\ Main(NoFile)

\* between two analyses somebody writes, removes or protects stopwords.txt
WriteStopwordsFile(sfile) ==
    /\ uploaded_file = NoFile
    /\ stopwords_txt # sfile
    /\ stopwords_txt' = sfile
    /\ UNCHANGED <<uploaded_file, font_ok, jieba_mode, page, calls, exc,
                   title_column, titles, stopwords, words, top_words, word_dict,
                   prev_analysed, fn, fn_args, fn_ret>>

\* between two analyses SimHei.ttf is installed or removed
SetFont(b) ==
    /\ uploaded_file = NoFile
    /\ font_ok # b
    /\ font_ok' = b
    /\ UNCHANGED <<uploaded_file, stopwords_txt, jieba_mode, page, calls, exc,
                   title_column, titles, stopwords, words, top_words, word_dict,
                   prev_analysed, fn, fn_args, fn_ret>>

Next ==
    \/ /\ uploaded_file = NoFile
       /\ \E f \in Files : UploadFile(f)
    \/ RemoveFile
    \/ /\ uploaded_file = NoFile
       /\ \E sfile \in StopFiles : WriteStopwordsFile(sfile)
    \/ \E b \in BOOLEAN : SetFont(b)

Spec == Init /\ [][Next]_vars

\* Uploads of tables with the one column 标题 that follow one another without
\* the uploader being emptied in between.
NextReplace ==
    \/ /\ uploaded_file = NoFile
       /\ \E f \in TitleOnlyFiles : UploadFile(f)
    \/ /\ uploaded_file # NoFile
       /\ \E f \in TitleOnlyFiles : ReplaceFile(f)
    \/ RemoveFile
    \/ /\ uploaded_file = NoFile
       /\ \E sfile \in StopFiles : WriteStopwordsFile(sfile)
    \/ \E b \in BOOLEAN : SetFont(b)

SpecReplace == Init /\ [][NextReplace]_vars

-----------------------------------------------------------------------------
(* The functions called on their own, on inputs main() never gives them.   *)

IntCell == [kind |-> "int", text |-> <<>>]

FnTitleLists == SeqsUpTo(TitleCells \cup {IntCell}, MaxRows)

\* 一个, 个个, 个一
AnalyzeWords == { <<19968, 20010>>, <<20010, 20010>>, <<20010, 19968>> }

StopSets == {DefaultStopwords} \cup SUBSET {<<19968, 20010>>, <<20010, 20010>>}

\* candidates a segmenter may hand back: a single character, blanks, words
CandidateWords == { <<20010>>, <<32, 32>>, <<19968, 20010>>, <<20010, 20010>> }

Segmenters ==
    {[kind |-> k, out |-> <<>>] : k \in {"chars", "runs", "whole"}}
    \cup {[kind |-> "fixed", out |-> c] : c \in SeqsUpTo(CandidateWords, MaxCands)}

CallGetStopwords(sfile) ==
    /\ fn = "none"
    /\ fn' = "get_stopwords"
    /\ fn_args' = [name |-> "get_stopwords", sfile |-> sfile]
    /\ fn_ret' = get_stopwords(sfile)
    /\ UNCHANGED main_vars

CallPreprocessText(ts, stopset, mode) ==
    /\ fn = "none"
    /\ fn' = "preprocess_text"
    /\ fn_args' = [name |-> "preprocess_text", titles |-> ts,
                   stopwords |-> stopset, mode |-> mode]
    /\ fn_ret' = [value |-> preprocess_text(<<>>, ts, stopset, mode)]
    /\ UNCHANGED main_vars

\* analyze_keywords on a, on b and on a + b
CallAnalyzeKeywords(a, b, n) ==
    /\ fn = "none"
    /\ fn' = "analyze_keywords"
    /\ fn_args' = [name |-> "analyze_keywords", a |-> a, b |-> b, top_n |-> n]
    /\ fn_ret' = [a |-> analyze_keywords(a, n), b |-> analyze_keywords(b, n),
                  ab |-> analyze_keywords(a \o b, n)]
    /\ UNCHANGED main_vars

Return ==
    /\ fn # "none"
    /\ fn' = "none"
    /\ fn_args' = NoCall
    /\ fn_ret' = NoCall
    /\ UNCHANGED main_vars

WordLists == SeqsUpTo(AnalyzeWords, MaxWords)

NextFn ==
    \/ /\ fn = "none"
       /\ \E sfile \in StopFiles : CallGetStopwords(sfile)
    \/ /\ fn = "none"
       /\ \E ts \in FnTitleLists, stopset \in StopSets, mode \in Segmenters :
             CallPreprocessText(ts, stopset, mode)
    \/ /\ fn = "none"
       /\ \E a \in WordLists, b \in WordLists, n \in 0..MaxTopN :
             CallAnalyzeKeywords(a, b, n)
    \/ Return

SpecFn == Init /\ [][NextFn]_vars

-----------------------------------------------------------------------------
(* Properties *)

Shown(k) == \E i \in 1..Len(page) : page[i].kind = k

HasTitleColumn(columns) ==
    \E k \in 1..Len(possible_columns) : IsIn(possible_columns[k], columns)

Occurrences(ws, w) == Cardinality({i \in 1..Len(ws) : ws[i] = w})

FirstIndex(ws, w) == CHOOSE i \in 1..Len(ws) : ws[i] = w /\ \A j \in 1..(i - 1) : ws[j] # w

WordsOf(ws) == {ws[i] : i \in 1..Len(ws)}

RECURSIVE SumCounts(_)
SumCounts(c) == IF c = <<>> THEN 0 ELSE Head(c).count + SumCounts(Tail(c))

\* C1: every word preprocess_text returns has at least two characters and is
\* not in the stopword set, whatever candidates the segmenter produced.
TokensAreLongAndNotStopwords ==
    fn = "preprocess_text" =>
        \A i \in 1..Len(fn_ret.value) :
            /\ Len(fn_ret.value[i]) >= 2
            /\ fn_ret.value[i] \notin fn_args.stopwords

\* C1 witness: a segmenter handed back a one-character candidate, a stopword
\* and a word; the call dropped the first two and returned the word.
TokensWitness ==
    /\ fn = "preprocess_text"
    /\ fn_args.mode.kind = "fixed"
    /\ fn_args.titles # <<>>
    /\ \E i \in 1..Len(fn_args.mode.out) : Len(fn_args.mode.out[i]) = 1
    /\ \E i \in 1..Len(fn_args.mode.out) : fn_args.mode.out[i] \in fn_args.stopwords
    /\ fn_ret.value # <<>>

\* C2: a table with none of the four accepted columns gets the missing-column
\* error and nothing else: no stopwords loaded, nothing tokenized or counted,
\* no success notice, list or image on the page.
MissingColumnHalts ==
    (uploaded_file.kind = "table" /\ ~HasTitleColumn(uploaded_file.columns)) =>
        /\ page = <<Elem("error_missing_column")>>
        /\ calls = {"read_excel"}
        /\ stopwords = {} /\ words = <<>> /\ top_words = <<>> /\ word_dict = <<>>
        /\ ~Shown("success") /\ ~Shown("top_list") /\ ~Shown("image")

\* C2 witness: a table with the one column price and a row in it was uploaded
\* and the page shows the missing-column error.
MissingColumnWitness ==
    /\ uploaded_file.kind = "table"
    /\ uploaded_file.columns = <<"price">>
    /\ uploaded_file.data[1] # <<>>
    /\ Shown("error_missing_column")

\* a cell with no usable value: empty, or a string of blanks
IsBlankCell(cell) == cell.kind = "nan" \/ (cell.kind = "str" /\ Strip(cell.text) = <<>>)

\* C3 (as claimed): a table whose title column holds only blank or whitespace
\* values gets the empty-data error and nothing else.
BlankColumnReportsEmptyData ==
    (/\ uploaded_file.kind = "table"
     /\ HasTitleColumn(uploaded_file.columns)
     /\ \A i \in 1..Len(ColumnData(uploaded_file, title_column)) :
            IsBlankCell(ColumnData(uploaded_file, title_column)[i])) =>
        /\ page = <<Elem("error_empty")>>
        /\ calls = {"read_excel"}

\* C4 (as claimed): when a step of the pipeline raised, the page shows the
\* error and neither the success notice nor the Top-20 list.
NoPartialPageOnFailure ==
    exc # "none" =>
        /\ Shown("error_exception")
        /\ ~Shown("success")
        /\ ~Shown("top_list")

\* C5 (as claimed): with stopwords.txt absent or unreadable get_stopwords
\* raises nothing and returns the built-in set.
GetStopwordsNeverFails ==
    (fn = "get_stopwords" /\ fn_args.sfile.state # "readable") =>
        /\ fn_ret.raised = "none"
        /\ fn_ret.value = DefaultStopwords

\* C6 (as claimed): with stopwords.txt readable get_stopwords returns the
\* trimmed lines that are not empty, and never the empty string.
ReadableStopwordsAreNonEmptyLines ==
    (fn = "get_stopwords" /\ fn_args.sfile.state = "readable") =>
        /\ fn_ret.raised = "none"
        /\ fn_ret.value =
              {Strip(fn_args.sfile.lines[i]) : i \in 1..Len(fn_args.sfile.lines)} \ {<<>>}
        /\ <<>> \notin fn_ret.value

\* C7: the ranked list of analyze_keywords(a + b, top_n) has at most top_n
\* entries, holds the top_n most frequent distinct words with their counts,
\* is sorted by count non-increasing, and orders words of equal count by
\* their first occurrence in the input.
RankedListIsTopNStable ==
    fn = "analyze_keywords" =>
        LET ws == fn_args.a \o fn_args.b
            top == fn_ret.ab.top_words
            listed == {top[i].word : i \in 1..Len(top)}
        IN  /\ Len(top) <= fn_args.top_n
            /\ Len(top) = Min(fn_args.top_n, Cardinality(WordsOf(ws)))
            /\ \A i \in 1..Len(top) :
                  /\ top[i].word \in WordsOf(ws)
                  /\ top[i].count = Occurrences(ws, top[i].word)
            /\ \A i \in 1..Len(top) : \A j \in 1..Len(top) :
                  top[i].word = top[j].word => i = j
            /\ \A w \in WordsOf(ws) \ listed : \A i \in 1..Len(top) :
                  Occurrences(ws, w) <= top[i].count
            /\ \A i \in 1..Len(top) : \A j \in (i + 1)..Len(top) :
                  /\ top[i].count >= top[j].count
                  /\ top[i].count = top[j].count =>
                        FirstIndex(ws, top[i].word) < FirstIndex(ws, top[j].word)

\* C7 witness: a call that cut the list short, with two listed words of equal
\* count of which the one listed first is not the one added last.
RankedListWitness ==
    /\ fn = "analyze_keywords"
    /\ Len(fn_ret.ab.top_words) = fn_args.top_n
    /\ fn_args.top_n < Cardinality(WordsOf(fn_args.a \o fn_args.b))
    /\ Len(fn_ret.ab.top_words) >= 2
    /\ fn_ret.ab.top_words[1].count = fn_ret.ab.top_words[2].count

\* C8: with one or more accepted columns in the table, main reads the titles
\* of the one that is first in the order 标题, 商品标题, product_title, title,
\* wherever it stands in the table; the missing-column error is shown exactly
\* when the table has none of the four.
ColumnPrecedence ==
    uploaded_file.kind = "table" =>
        /\ Shown("error_missing_column") <=> ~HasTitleColumn(uploaded_file.columns)
        /\ \A k \in 1..Len(possible_columns) :
              (/\ IsIn(possible_columns[k], uploaded_file.columns)
               /\ \A j \in 1..(k - 1) : ~IsIn(possible_columns[j], uploaded_file.columns)) =>
                  /\ title_column = possible_columns[k]
                  /\ titles = ColumnData(uploaded_file, possible_columns[k])

\* C8 witness: the table has title before 标题, with different cells, and the
\* titles read are those of 标题.
ColumnPrecedenceWitness ==
    /\ uploaded_file.kind = "table"
    /\ uploaded_file.columns = <<"title", "biaoti">>
    /\ uploaded_file.data[1] # uploaded_file.data[2]
    /\ titles = uploaded_file.data[2]
    /\ titles # <<>>

\* C9: whatever was uploaded before, a run that tokenizes gives the words,
\* counts and ranked list that the same titles and stopwords give to a
\* process that has analysed nothing yet.
ResultIndependentOfEarlierUploads ==
    "preprocess_text" \in calls =>
        LET fresh == ExtendAll(<<>>, titles, stopwords, jieba_mode)
        IN  /\ words = fresh
            /\ \A w \in WordsOf(fresh) : CountOf(word_dict, w) = Occurrences(fresh, w)
            /\ SumCounts(word_dict) = Len(fresh)
            /\ top_words = most_common(Counter(fresh), DefaultTopN)

\* C9 witness: a run that found words replaced a run that had tokenized too.
EarlierUploadWitness ==
    /\ prev_analysed
    /\ "preprocess_text" \in calls
    /\ Len(top_words) >= 2

\* C10: the table for a + b gives every word its count in the table for a
\* plus its count in the table for b, and the counts of a table add up to the
\* length of the counted sequence.
CountIsAdditive ==
    fn = "analyze_keywords" =>
        /\ \A w \in AnalyzeWords :
              CountOf(fn_ret.ab.word_dict, w)
                  = CountOf(fn_ret.a.word_dict, w) + CountOf(fn_ret.b.word_dict, w)
        /\ SumCounts(fn_ret.ab.word_dict) = Len(fn_args.a) + Len(fn_args.b)
        /\ SumCounts(fn_ret.a.word_dict) = Len(fn_args.a)
        /\ SumCounts(fn_ret.b.word_dict) = Len(fn_args.b)

\* C10 witness: a and b share a word and each has a word of its own.
CountAdditiveWitness ==
    /\ fn = "analyze_keywords"
    /\ \E w \in AnalyzeWords :
          /\ CountOf(fn_ret.a.word_dict, w) >= 1
          /\ CountOf(fn_ret.b.word_dict, w) >= 1
          /\ CountOf(fn_ret.ab.word_dict, w) >= 2
    /\ Len(fn_ret.ab.word_dict) >= 2

====
